---- MODULE Spec2Model ----
(***************************************************************************)
(* A model of @northscaler/acl: access control entries (Ace), the access   *)
(* control list (Acl), the static strategies and the default sameness      *)
(* tester.                                                                 *)
(***************************************************************************)
EXTENDS Integers, Sequences, FiniteSets, TLC

VARIABLES
    aces,     \* Acl._aces: the list's entries, in insertion order
    pc,       \* position of the calling script ("idle" when calls are free)
    call,     \* the arguments the calling script holds on to
    ace,      \* the entry last built by the Ace constructor, or NoAce
    thrown    \* whether the last constructor call threw 'invalid strategy given'

vars == <<aces, pc, call, ace, thrown>>

----------------------------------------------------------------------------
(* Bounds of the model.                                                    *)

\* the longest entry list the free calls build
MaxAces == 2
\* the longest principals / actions array of a query
MaxQueryLen == 2
\* the most calls of a script whose order is varied
MaxCalls == 2

----------------------------------------------------------------------------
(* JavaScript values.  A value is named by a string: a primitive by its    *)
(* text, an object by the name of its reference, so that = on names is     *)
(* ===.  Js(v) tells what the value is: its typeof, its _id and id         *)
(* properties ("" when absent), whether it has an identifies method and    *)
(* the values that method answers true for, and what its permits, grants   *)
(* and denies properties are: "undefined" (absent), "falsy" (null, 0, ''), *)
(* "truthy" (a truthy value that is no function) or "function".            *)

Value(type, underscoreId, plainId, hasIdent, identified, p, g, d) ==
    [type |-> type, _id |-> underscoreId, id |-> plainId,
     hasIdentifies |-> hasIdent, identifies |-> identified,
     permits |-> p, grants |-> g, denies |-> d]

Primitive(type) ==
    Value(type, "", "", FALSE, {}, "undefined", "undefined", "undefined")

Obj(underscoreId, plainId, hasIdent, identified) ==
    Value("object", underscoreId, plainId, hasIdent, identified,
          "undefined", "undefined", "undefined")

StrategyObj(p, g, d) == Value("object", "", "", FALSE, {}, p, g, d)

\* a field or argument the caller left out
Undefined == "undefined"
\* principals: two user names, the number 0, and a role object whose
\* identifies(other) answers true for alice
alice == "alice"
bob == "bob"
zero == "0"
role == "role"
\* securables: two document names, and two references to one stored
\* document (different objects carrying the same _id)
doc1 == "doc1"
doc2 == "doc2"
docA == "docA"
docB == "docB"
\* actions: two action names and two plain objects
read == "read"
write == "write"
opA == "opA"
opB == "opB"

\* the README's dynamic strategy example: three user names, the action
\* 'close', three Account objects, and two strategy objects
sally == "sally"
john == "john"
felix == "felix"
close == "close"
lowAccount == "lowAccount"
midAccount == "midAccount"
highAccount == "highAccount"
Accounts == {lowAccount, midAccount, highAccount}
\* new Strategy(hiThreshold, loThreshold), with permits and denies
thresholds == "thresholds"
\* the same class with its permits method under the legacy name grants
legacyThresholds == "legacyThresholds"

\* the four things a property of a strategy can be, and which of them are truthy
PropKinds == {"undefined", "falsy", "truthy", "function"}
TruthyProp(kind) == kind \in {"truthy", "function"}

\* the three values of the StaticAccessControlStrategy enumeration: distinct
\* objects, each with the three methods, none with _id, id or identifies
GRANT == "GRANT"
DENY == "DENY"
PERMIT == "PERMIT"
StaticStrategies == {GRANT, DENY, PERMIT}

\* a caller's own strategy object, named by what its three properties are
CustomStrategy(p, g, d) ==
    "{permits:" \o p \o ",grants:" \o g \o ",denies:" \o d \o "}"

CustomShapes == [permits : PropKinds, grants : PropKinds, denies : PropKinds]

CustomStrategies ==
    {CustomStrategy(s.permits, s.grants, s.denies) : s \in CustomShapes}

\* every value of the model
AllValues ==
    {Undefined, alice, bob, zero, role, doc1, doc2, docA, docB, read, write, opA, opB}
        \cup {sally, john, felix, close} \cup Accounts \cup {thresholds, legacyThresholds}
        \cup StaticStrategies \cup CustomStrategies

JsTable ==
    [v \in AllValues |->
        CASE v = Undefined -> Primitive("undefined")
          [] v \in {alice, bob, doc1, doc2, read, write} -> Primitive("string")
          [] v \in {sally, john, felix, close} -> Primitive("string")
          [] v \in Accounts -> Obj("", "", FALSE, {})
          [] v = thresholds -> StrategyObj("function", "undefined", "function")
          [] v = legacyThresholds -> StrategyObj("undefined", "function", "function")
          [] v = zero -> Primitive("number")
          [] v = role -> Obj("", "", TRUE, {alice})
          [] v \in {docA, docB} -> Obj("7", "", FALSE, {})
          [] v \in {opA, opB} -> Obj("", "", FALSE, {})
          [] v \in StaticStrategies -> StrategyObj("function", "function", "function")
          [] OTHER ->
                LET shape == CHOOSE s \in CustomShapes :
                                CustomStrategy(s.permits, s.grants, s.denies) = v
                IN  StrategyObj(shape.permits, shape.grants, shape.denies)]

Js(v) == JsTable[v]

\* JavaScript truthiness
Truthy(v) ==
    CASE Js(v).type = "undefined" -> FALSE
      [] Js(v).type = "string" -> v # ""
      [] Js(v).type = "number" -> v \notin {"0", "NaN"}
      [] OTHER -> TRUE

\* the property key a value becomes when it indexes a plain object
ToKey(v) == IF Js(v).type = "object" THEN "[object Object]" ELSE v

----------------------------------------------------------------------------
(* SamenessTester.js                                                       *)

testSameness(that, other) ==
    \/ that = other
    \/ (Js(that)._id # "" /\ Js(that)._id = Js(other)._id)
    \/ (Js(that).id # "" /\ Js(that).id = Js(other).id)
    \/ (Js(that).hasIdentifies /\ other \in Js(that).identifies)

----------------------------------------------------------------------------
(* StaticAccessControlStrategy.js                                          *)

\* permits() and its synonym grants()
Strategy_permits(strategy) == strategy = PERMIT \/ strategy = GRANT

\* denies()
Strategy_denies(strategy) == strategy = DENY

----------------------------------------------------------------------------
(* The Strategy class of the README's dynamic example.                     *)

hiThreshold == 1000
loThreshold == 100

\* securable.balance of an Account; of any other securable it is undefined,
\* and undefined < threshold is false
Balance(securable) ==
    CASE securable = lowAccount -> 50
      [] securable = midAccount -> 500
      [] securable = highAccount -> 5000

BalanceBelow(securable, threshold) ==
    securable \in Accounts /\ Balance(securable) < threshold

\* Strategy.permits; an action other than close falls out of the switch and
\* the method returns undefined, which is falsy
Thresholds_permits(principal, action, securable) ==
    IF action = close
    THEN CASE principal = sally -> TRUE
           [] principal = john -> BalanceBelow(securable, hiThreshold)
           [] OTHER -> BalanceBelow(securable, loThreshold)
    ELSE FALSE

\* Strategy.denies; securable instanceof Account
Thresholds_denies(principal, action, securable) ==
    IF action = close
    THEN CASE principal = felix -> securable \in Accounts
           [] OTHER -> FALSE
    ELSE FALSE

----------------------------------------------------------------------------
(* What calling a strategy's methods answers, as a truth value.  The       *)
(* strategy objects named by their shape alone have functions that return  *)
(* nothing.                                                                *)

\* strategy.permits(tuple), for a strategy that has the method
strategyPermits(strategy, principal, action, securable) ==
    CASE strategy \in StaticStrategies -> Strategy_permits(strategy)
      [] strategy = thresholds -> Thresholds_permits(principal, action, securable)
      [] OTHER -> FALSE

\* strategy.grants(tuple), for a strategy that has the method
strategyGrants(strategy, principal, action, securable) ==
    CASE strategy \in StaticStrategies -> Strategy_permits(strategy)
      [] strategy = legacyThresholds -> Thresholds_permits(principal, action, securable)
      [] OTHER -> FALSE

\* strategy.denies(tuple)
strategyDenies(strategy, principal, action, securable) ==
    CASE strategy \in StaticStrategies -> Strategy_denies(strategy)
      [] strategy \in {thresholds, legacyThresholds} ->
            Thresholds_denies(principal, action, securable)
      [] OTHER -> FALSE

\* (strategy.permits || strategy.grants)(tuple)
permitsOrGrants(strategy, principal, action, securable) ==
    IF TruthyProp(Js(strategy).permits)
    THEN strategyPermits(strategy, principal, action, securable)
    ELSE strategyGrants(strategy, principal, action, securable)

----------------------------------------------------------------------------
(* Ace                                                                     *)

\* a slip in _testSetStrategy: the legacy grants property is not looked at
_testSetStrategyNoGrants(strategy) ==
    Js(strategy).permits # "function" \/ Js(strategy).denies # "function"

\* whether _testSetStrategy throws 'invalid strategy given'; strategy?.x of an
\* absent strategy is undefined
_testSetStrategy(strategy) ==
    \/ (TruthyProp(Js(strategy).permits) /\ Js(strategy).permits # "function")
    \/ (TruthyProp(Js(strategy).grants) /\ Js(strategy).grants # "function")
    \/ (~TruthyProp(Js(strategy).grants) /\ ~TruthyProp(Js(strategy).permits))
    \/ Js(strategy).denies # "function"

\* Ace.of / new Ace: the frozen entry, for a strategy _testSetStrategy accepts
Ace_of(strategy, principal, securable, action) ==
    [strategy |-> strategy, principal |-> principal,
     securable |-> securable, action |-> action]

\* no entry: what the ace variable holds before and after a failed construction
NoAce == Ace_of(Undefined, Undefined, Undefined, Undefined)

\* a slip in appliesToPrincipal: an unset principal is compared like any other
appliesToPrincipalNoWildcard(e, principal) == testSameness(principal, e.principal)

appliesToPrincipal(e, principal) ==
    ~Truthy(e.principal) \/ testSameness(principal, e.principal)

appliesToAction(e, action) ==
    ~Truthy(e.action) \/ testSameness(action, e.action)

appliesToSecurable(e, securable) ==
    ~Truthy(e.securable) \/ testSameness(securable, e.securable)

appliesToStrategy(e, strategy) ==
    LET s == IF strategy = GRANT THEN PERMIT ELSE strategy
    IN  testSameness(s, e.strategy)

_applies(e, principal, securable, action) ==
    /\ appliesToSecurable(e, securable)
    /\ appliesToAction(e, action)
    /\ (~Truthy(e.principal) \/ testSameness(e.principal, principal))

\* a slip in Ace.permits: the strategy's denies is not asked
Ace_permitsNoVeto(e, principal, action, securable) ==
    /\ _applies(e, principal, securable, action)
    /\ permitsOrGrants(e.strategy, principal, action, securable)

\* the strategies of the model ignore the optional data of a query
Ace_permits(e, principal, action, securable) ==
    /\ _applies(e, principal, securable, action)
    /\ ~strategyDenies(e.strategy, principal, action, securable)
    /\ permitsOrGrants(e.strategy, principal, action, securable)

Ace_denies(e, principal, action, securable) ==
    /\ _applies(e, principal, securable, action)
    /\ strategyDenies(e.strategy, principal, action, securable)

----------------------------------------------------------------------------
(* Acl                                                                     *)

\* what a caller passes as principals or actions: an array or any other value
Arr(items) == [isArray |-> TRUE, items |-> items, value |-> Undefined]
Scalar(v) == [isArray |-> FALSE, items |-> <<>>, value |-> v]

\* the argument object of permits / denies; a key the caller left out is undefined
MultiQuery(principals, actions, securable) ==
    [principals |-> principals, actions |-> actions, securable |-> securable,
     principal |-> Undefined, action |-> Undefined]

SingleQuery(principal, action, securable) ==
    [principals |-> Scalar(Undefined), actions |-> Scalar(Undefined),
     securable |-> securable, principal |-> principal, action |-> action]

\* a slip in _ensureArray: a value that is no array is dropped, not wrapped
_ensureArrayUnwrapped(it) == it.items

_ensureArray(it) == IF it.isArray THEN it.items ELSE <<it.value>>

_findApplicableAces(list, principals, actions, securable) ==
    SelectSeq(list, LAMBDA e:
        /\ \E i \in DOMAIN principals : appliesToPrincipal(e, principals[i])
        /\ \E j \in DOMAIN actions : appliesToAction(e, actions[j])
        /\ appliesToSecurable(e, securable))

_denies(principals, actions, securable, found) ==
    \E k \in DOMAIN found, i \in DOMAIN principals, j \in DOMAIN actions :
        Ace_denies(found[k], principals[i], actions[j], securable)

\* the grantsByAction object when the three loops of permits end: one property
\* per key the requested actions turn into, true once some entry granted an
\* action with that key to some principal
grantsByAction(principals, actions, securable, found) ==
    [key \in {ToKey(actions[j]) : j \in DOMAIN actions} |->
        \E k \in DOMAIN found, i \in DOMAIN principals, j \in DOMAIN actions :
            /\ ToKey(actions[j]) = key
            /\ Ace_permits(found[k], principals[i], actions[j], securable)]

Acl_permits(list, arg) ==
    LET principals == _ensureArray(arg.principals)
        actions == _ensureArray(arg.actions)
        found == _findApplicableAces(list, principals, actions, arg.securable)
        grants == grantsByAction(principals, actions, arg.securable, found)
    IN  IF _denies(principals, actions, arg.securable, found)
        THEN FALSE
        ELSE \A j \in DOMAIN actions : grants[ToKey(actions[j])]

Acl_denies(list, arg) ==
    LET principals == _ensureArray(arg.principals)
        actions == _ensureArray(arg.actions)
    IN  _denies(principals, actions, arg.securable,
                _findApplicableAces(list, principals, actions, arg.securable))

\* the findIndex of _secure: the first matching position, 0 for JavaScript's -1
findIndex(list, strategy, principal, securable, action) ==
    LET hits == {i \in DOMAIN list :
                    /\ appliesToPrincipal(list[i], principal)
                    /\ appliesToAction(list[i], action)
                    /\ appliesToStrategy(list[i], strategy)
                    /\ (IF Truthy(securable)
                        THEN appliesToSecurable(list[i], securable)
                        ELSE TRUE)}
    IN  IF hits = {} THEN 0 ELSE CHOOSE i \in hits : \A h \in hits : i <= h

\* a slip in the removal: slice for splice, which leaves the array as it was
sliceForSplice(list, index) == list

\* the list with position index spliced out
splice(list, index) ==
    [i \in 1..(Len(list) - 1) |-> IF i < index THEN list[i] ELSE list[i + 1]]

\* a slip in _secure: the entry is pushed before its strategy is looked at
_securePushFirst(list, strategy, principal, securable, action, add) ==
    LET index == findIndex(list, strategy, principal, securable, action)
    IN  IF add /\ index = 0
        THEN Append(list, Ace_of(strategy, principal, securable, action))
        ELSE IF ~add /\ index # 0
             THEN splice(list, index)
             ELSE list

\* the entry list _secure leaves; a throwing Ace.of leaves it as it was
_secure(list, strategy, principal, securable, action, add) ==
    LET index == findIndex(list, strategy, principal, securable, action)
    IN  IF add /\ index = 0
        THEN IF _testSetStrategy(strategy)
             THEN list
             ELSE Append(list, Ace_of(strategy, principal, securable, action))
        ELSE IF ~add /\ index # 0
             THEN splice(list, index)
             ELSE list

\* whether _secure throws: only the Ace.of of the add branch can
_secureThrows(list, strategy, principal, securable, action, add) ==
    /\ add
    /\ findIndex(list, strategy, principal, securable, action) = 0
    /\ _testSetStrategy(strategy)

Acl_secure(list, strategy, principal, securable, action) ==
    _secure(list, strategy, principal, securable, action, TRUE)

Acl_unsecure(list, strategy, principal, securable, action) ==
    _secure(list, strategy, principal, securable, action, FALSE)

Acl_permit(list, principal, securable, action) ==
    Acl_secure(list, PERMIT, principal, securable, action)

Acl_grant(list, principal, securable, action) ==
    Acl_permit(list, principal, securable, action)

Acl_unpermit(list, principal, securable, action) ==
    Acl_unsecure(list, PERMIT, principal, securable, action)

Acl_ungrant(list, principal, securable, action) ==
    Acl_unpermit(list, principal, securable, action)

Acl_deny(list, principal, securable, action) ==
    Acl_secure(list, DENY, principal, securable, action)

Acl_undeny(list, principal, securable, action) ==
    Acl_unsecure(list, DENY, principal, securable, action)

----------------------------------------------------------------------------
(* The list under free calls: any caller, any sequence of the mutators,    *)
(* with the static strategies.                                             *)

\* what the calls name as principal, securable and action; Undefined is a
\* principal the caller left out
Principals == {Undefined, alice, role}
Securables == {doc1}
Actions == {read, write}

NoCall == Ace_of(Undefined, Undefined, Undefined, Undefined)

Init ==
    /\ aces = <<>>
    /\ pc = "idle"
    /\ call = NoCall
    /\ ace = NoAce
    /\ thrown = FALSE

Secure(strategy, principal, securable, action) ==
    /\ pc = "idle"
    /\ aces' = Acl_secure(aces, strategy, principal, securable, action)
    /\ Len(aces') <= MaxAces
    /\ UNCHANGED <<pc, call, ace, thrown>>

Unsecure(strategy, principal, securable, action) ==
    /\ pc = "idle"
    /\ aces' = Acl_unsecure(aces, strategy, principal, securable, action)
    /\ UNCHANGED <<pc, call, ace, thrown>>

Permit(principal, securable, action) ==
    /\ pc = "idle"
    /\ aces' = Acl_permit(aces, principal, securable, action)
    /\ Len(aces') <= MaxAces
    /\ UNCHANGED <<pc, call, ace, thrown>>

Grant(principal, securable, action) ==
    /\ pc = "idle"
    /\ aces' = Acl_grant(aces, principal, securable, action)
    /\ Len(aces') <= MaxAces
    /\ UNCHANGED <<pc, call, ace, thrown>>

Unpermit(principal, securable, action) ==
    /\ pc = "idle"
    /\ aces' = Acl_unpermit(aces, principal, securable, action)
    /\ UNCHANGED <<pc, call, ace, thrown>>

Ungrant(principal, securable, action) ==
    /\ pc = "idle"
    /\ aces' = Acl_ungrant(aces, principal, securable, action)
    /\ UNCHANGED <<pc, call, ace, thrown>>

Deny(principal, securable, action) ==
    /\ pc = "idle"
    /\ aces' = Acl_deny(aces, principal, securable, action)
    /\ Len(aces') <= MaxAces
    /\ UNCHANGED <<pc, call, ace, thrown>>

Undeny(principal, securable, action) ==
    /\ pc = "idle"
    /\ aces' = Acl_undeny(aces, principal, securable, action)
    /\ UNCHANGED <<pc, call, ace, thrown>>

Next ==
    \E p \in Principals, s \in Securables, a \in Actions :
        \/ \E k \in StaticStrategies : Secure(k, p, s, a)
        \/ \E k \in StaticStrategies : Unsecure(k, p, s, a)
        \/ Permit(p, s, a)
        \/ Grant(p, s, a)
        \/ Unpermit(p, s, a)
        \/ Ungrant(p, s, a)
        \/ Deny(p, s, a)
        \/ Undeny(p, s, a)

Spec == Init /\ [][Next]_vars

----------------------------------------------------------------------------
(* The queries asked of the list.                                          *)

QueryPrincipals == {alice, role}
QueryActions == {read, write}
QuerySecurables == {doc1, doc2}

\* the arrays of at most n values of S
ArraysUpTo(S, n) == UNION {[1..k -> S] : k \in 0..n}

\* what a caller may pass as principals or actions: one value or an array
QueryArgs(S) ==
    {Scalar(v) : v \in S} \cup {Arr(items) : items \in ArraysUpTo(S, MaxQueryLen)}

Queries ==
    {MultiQuery(ps, as, s) :
        ps \in QueryArgs(QueryPrincipals), as \in QueryArgs(QueryActions),
        s \in QuerySecurables}

\* some entry of the list denies one of the requested (principal, action) pairs
SomeEntryDenies(list, q) ==
    \E k \in DOMAIN list :
        \E i \in DOMAIN _ensureArray(q.principals), j \in DOMAIN _ensureArray(q.actions) :
            Ace_denies(list[k], _ensureArray(q.principals)[i],
                       _ensureArray(q.actions)[j], q.securable)

\* every requested action is permitted to some requested principal by some entry
EveryActionCovered(list, q) ==
    \A j \in DOMAIN _ensureArray(q.actions) :
        \E k \in DOMAIN list, i \in DOMAIN _ensureArray(q.principals) :
            Ace_permits(list[k], _ensureArray(q.principals)[i],
                        _ensureArray(q.actions)[j], q.securable)

\* C1: deny-overrides.  In every reachable list and for every query, if some
\* entry denies a requested (principal, action) pair on the securable, then
\* permits answers false.
DenyOverrides ==
    \A q \in Queries : SomeEntryDenies(aces, q) => ~Acl_permits(aces, q)

\* C2: fail-closed.  On the empty list permits and denies both answer false
\* for every query, an empty array of actions included.
FailClosed ==
    aces = <<>> =>
        \A q \in Queries : ~Acl_permits(aces, q) /\ ~Acl_denies(aces, q)

\* C3: collective permission.  permits answers true exactly when no entry
\* denies a requested pair and every requested action is permitted to some
\* requested principal by some entry.
CollectivePermission ==
    \A q \in Queries :
        Acl_permits(aces, q) <=>
            (~SomeEntryDenies(aces, q) /\ EveryActionCovered(aces, q))

Kind(strategy) == IF strategy = DENY THEN "deny" ELSE "permit"

\* C10: uniqueness.  No reachable list holds two entries with the same
\* principal, action and securable whose strategies are of the same kind.
UniqueEntries ==
    \A i, j \in DOMAIN aces :
        i < j =>
            ~ /\ aces[i].principal = aces[j].principal
              /\ aces[i].action = aces[j].action
              /\ aces[i].securable = aces[j].securable
              /\ Kind(aces[i].strategy) = Kind(aces[j].strategy)

\* C16: applicability is consistent.  For every entry of the list and every
\* tuple, the applicability that the entry's permits and denies use equals
\* appliesToPrincipal and appliesToAction and appliesToSecurable; and a list
\* of one entry answers permits and denies as that entry does.
ApplicabilityConsistent ==
    \A p \in QueryPrincipals, a \in QueryActions, s \in QuerySecurables :
        /\ \A k \in DOMAIN aces :
            _applies(aces[k], p, s, a) <=>
                /\ appliesToPrincipal(aces[k], p)
                /\ appliesToAction(aces[k], a)
                /\ appliesToSecurable(aces[k], s)
        /\ Len(aces) = 1 =>
            /\ Acl_permits(aces, MultiQuery(Scalar(p), Scalar(a), s))
                 = Ace_permits(aces[1], p, a, s)
            /\ Acl_denies(aces, MultiQuery(Scalar(p), Scalar(a), s))
                 = Ace_denies(aces[1], p, a, s)

----------------------------------------------------------------------------
(* A caller that repeats its call: after any calls, one secure or unsecure *)
(* and then the same call again.                                           *)

SecureOnce(strategy, principal, securable, action) ==
    /\ pc = "idle"
    /\ aces' = Acl_secure(aces, strategy, principal, securable, action)
    /\ Len(aces') <= MaxAces
    /\ call' = Ace_of(strategy, principal, securable, action)
    /\ pc' = "secured"
    /\ UNCHANGED <<ace, thrown>>

SecureAgain ==
    /\ pc = "secured"
    /\ aces' = Acl_secure(aces, call.strategy, call.principal, call.securable, call.action)
    /\ pc' = "securedAgain"
    /\ UNCHANGED <<call, ace, thrown>>

UnsecureOnce(strategy, principal, securable, action) ==
    /\ pc = "idle"
    /\ aces' = Acl_unsecure(aces, strategy, principal, securable, action)
    /\ call' = Ace_of(strategy, principal, securable, action)
    /\ pc' = "unsecured"
    /\ UNCHANGED <<ace, thrown>>

UnsecureAgain ==
    /\ pc = "unsecured"
    /\ aces' = Acl_unsecure(aces, call.strategy, call.principal, call.securable, call.action)
    /\ pc' = "unsecuredAgain"
    /\ UNCHANGED <<call, ace, thrown>>

NextTwice ==
    \/ Next
    \/ \E k \in StaticStrategies, p \in Principals, s \in Securables, a \in Actions :
        \/ SecureOnce(k, p, s, a)
        \/ UnsecureOnce(k, p, s, a)
    \/ SecureAgain
    \/ UnsecureAgain

SpecTwice == Init /\ [][NextTwice]_vars

\* C4: idempotent secure.  A secure call repeated with the arguments of the
\* call before it leaves the entry list as that call left it.
IdempotentSecure ==
    [][(pc = "secured" /\ pc' = "securedAgain") => aces' = aces]_vars

\* C5: idempotent unsecure.  An unsecure call repeated with the arguments of
\* the call before it leaves the entry list as that call left it.
IdempotentUnsecure ==
    [][(pc = "unsecured" /\ pc' = "unsecuredAgain") => aces' = aces]_vars

\* the values an entry is asked about
AnyValue == {Undefined, alice, bob, zero, role, doc1, docA, docB, read, opA}

\* C18: unsecure removes only the named entry.  An unsecure call that names
\* a principal, a securable and an action leaves the list as it was or with
\* one entry removed, the others in their order; the removed entry has the
\* call's strategy (PERMIT for the legacy GRANT) and a principal, securable
\* and action that are the same as the call's; the answers for a principal,
\* an action or a securable that is not the same as the call's are as
\* before, and an unsecure of a permission changes no denies answer.
UnsecureFrame ==
    [][(/\ pc = "idle"
        /\ pc' = "unsecured"
        /\ call'.principal # Undefined
        /\ call'.securable # Undefined
        /\ call'.action # Undefined)
       => /\ \/ aces' = aces
             \/ \E i \in DOMAIN aces :
                    /\ aces' = splice(aces, i)
                    /\ Kind(aces[i].strategy) = Kind(call'.strategy)
                    /\ aces[i].principal # Undefined
                    /\ aces[i].securable # Undefined
                    /\ aces[i].action # Undefined
                    /\ testSameness(call'.principal, aces[i].principal)
                    /\ testSameness(call'.securable, aces[i].securable)
                    /\ testSameness(call'.action, aces[i].action)
          /\ \A p \in {alice, bob}, a \in QueryActions, s \in QuerySecurables :
                /\ (\/ ~(testSameness(p, call'.principal) \/ testSameness(call'.principal, p))
                    \/ a # call'.action
                    \/ s # call'.securable) =>
                        /\ Acl_permits(aces', MultiQuery(Scalar(p), Scalar(a), s))
                             = Acl_permits(aces, MultiQuery(Scalar(p), Scalar(a), s))
                        /\ Acl_denies(aces', MultiQuery(Scalar(p), Scalar(a), s))
                             = Acl_denies(aces, MultiQuery(Scalar(p), Scalar(a), s))
                /\ Kind(call'.strategy) = "permit" =>
                        Acl_denies(aces', MultiQuery(Scalar(p), Scalar(a), s))
                          = Acl_denies(aces, MultiQuery(Scalar(p), Scalar(a), s))]_vars

----------------------------------------------------------------------------
(* The README's lifecycle: a new list, then permit, unpermit, deny and     *)
(* undeny of one principal, securable and action, with a query after each. *)

LifecyclePrincipals == {alice, bob, role, zero}
LifecycleSecurables == {doc1, doc2, docA, zero}
LifecycleActions == {read, write, opA, zero}

InitLifecycle ==
    /\ aces = <<>>
    /\ pc = "created"
    /\ call \in {Ace_of(Undefined, p, s, a) :
                    p \in LifecyclePrincipals, s \in LifecycleSecurables,
                    a \in LifecycleActions}
    /\ ace = NoAce
    /\ thrown = FALSE

LifecyclePermit ==
    /\ pc = "created"
    /\ aces' = Acl_permit(aces, call.principal, call.securable, call.action)
    /\ pc' = "permitted"
    /\ UNCHANGED <<call, ace, thrown>>

LifecycleUnpermit ==
    /\ pc = "permitted"
    /\ aces' = Acl_unpermit(aces, call.principal, call.securable, call.action)
    /\ pc' = "unpermitted"
    /\ UNCHANGED <<call, ace, thrown>>

LifecycleDeny ==
    /\ pc = "unpermitted"
    /\ aces' = Acl_deny(aces, call.principal, call.securable, call.action)
    /\ pc' = "denied"
    /\ UNCHANGED <<call, ace, thrown>>

LifecycleUndeny ==
    /\ pc = "denied"
    /\ aces' = Acl_undeny(aces, call.principal, call.securable, call.action)
    /\ pc' = "undenied"
    /\ UNCHANGED <<call, ace, thrown>>

NextLifecycle ==
    \/ LifecyclePermit
    \/ LifecycleUnpermit
    \/ LifecycleDeny
    \/ LifecycleUndeny

SpecLifecycle == InitLifecycle /\ [][NextLifecycle]_vars

\* the README's query: principals and actions given as single values
LifecycleQuery == MultiQuery(Scalar(call.principal), Scalar(call.action), call.securable)

\* C6: the lifecycle.  After permit the query is permitted and not denied;
\* after unpermit neither; after deny it is denied and not permitted; after
\* undeny neither.
Lifecycle ==
    /\ pc = "permitted" =>
        Acl_permits(aces, LifecycleQuery) /\ ~Acl_denies(aces, LifecycleQuery)
    /\ pc = "unpermitted" =>
        ~Acl_permits(aces, LifecycleQuery) /\ ~Acl_denies(aces, LifecycleQuery)
    /\ pc = "denied" =>
        ~Acl_permits(aces, LifecycleQuery) /\ Acl_denies(aces, LifecycleQuery)
    /\ pc = "undenied" =>
        ~Acl_permits(aces, LifecycleQuery) /\ ~Acl_denies(aces, LifecycleQuery)

\* the whole lifecycle run for alice reading doc1
LifecycleRun ==
    /\ pc = "undenied"
    /\ call = Ace_of(Undefined, alice, doc1, read)
    /\ aces = <<>>

\* C15: falsy identifiers are not wildcards.  After the script's permit, an
\* entry whose principal, action or securable is set applies only to values
\* that are the same as it, and a permit for the principal 0 does not make
\* permits true for another principal.
FalsyNotWildcard ==
    pc = "permitted" =>
        /\ \A k \in DOMAIN aces :
            /\ aces[k].principal # Undefined =>
                \A p \in AnyValue :
                    appliesToPrincipal(aces[k], p) => testSameness(p, aces[k].principal)
            /\ aces[k].action # Undefined =>
                \A a \in AnyValue :
                    appliesToAction(aces[k], a) => testSameness(a, aces[k].action)
            /\ aces[k].securable # Undefined =>
                \A s \in AnyValue :
                    appliesToSecurable(aces[k], s) => testSameness(s, aces[k].securable)
        /\ call.principal = zero =>
            \A p \in {alice, bob} :
                ~Acl_permits(aces, MultiQuery(Scalar(p), Scalar(call.action),
                                              call.securable))

----------------------------------------------------------------------------
(* Entries on their own: the constructor and the factory methods, called   *)
(* with any strategy object, the static ones and an absent one included.   *)

AnyStrategy == CustomStrategies \cup StaticStrategies \cup {Undefined}

AcePrincipals == {Undefined, alice, zero}
AceSecurables == {Undefined, docA}
AceActions == {Undefined, read}

InitAce ==
    /\ aces = <<>>
    /\ pc = "new"
    /\ call = NoCall
    /\ ace = NoAce
    /\ thrown = FALSE

\* what new Ace({ strategy, principal, securable, action }) leaves the caller
\* with: the entry, or no entry when _testSetStrategy throws
NewAce(strategy, principal, securable, action) ==
    IF _testSetStrategy(strategy)
    THEN NoAce
    ELSE Ace_of(strategy, principal, securable, action)

Of(strategy, principal, securable, action) ==
    /\ pc = "new"
    /\ call' = Ace_of(strategy, principal, securable, action)
    /\ pc' = "constructed"
    /\ thrown' = _testSetStrategy(strategy)
    /\ ace' = NewAce(strategy, principal, securable, action)
    /\ UNCHANGED aces

Permitting(principal, securable, action) ==
    /\ pc = "new"
    /\ call' = Ace_of(PERMIT, principal, securable, action)
    /\ pc' = "constructed"
    /\ thrown' = _testSetStrategy(PERMIT)
    /\ ace' = NewAce(PERMIT, principal, securable, action)
    /\ UNCHANGED aces

Granting(principal, securable, action) ==
    /\ pc = "new"
    /\ call' = Ace_of(PERMIT, principal, securable, action)
    /\ pc' = "constructed"
    /\ thrown' = _testSetStrategy(PERMIT)
    /\ ace' = NewAce(PERMIT, principal, securable, action)
    /\ UNCHANGED aces

Denying(principal, securable, action) ==
    /\ pc = "new"
    /\ call' = Ace_of(DENY, principal, securable, action)
    /\ pc' = "constructed"
    /\ thrown' = _testSetStrategy(DENY)
    /\ ace' = NewAce(DENY, principal, securable, action)
    /\ UNCHANGED aces

NextAce ==
    \E p \in AcePrincipals, s \in AceSecurables, a \in AceActions :
        \/ \E k \in AnyStrategy : Of(k, p, s, a)
        \/ Permitting(p, s, a)
        \/ Granting(p, s, a)
        \/ Denying(p, s, a)

SpecAce == InitAce /\ [][NextAce]_vars

\* C8, as claimed: construction fails exactly when the strategy does not have
\* both a callable permits and a callable denies.
ConstructionValidity ==
    pc = "constructed" =>
        (thrown <=> ~ /\ Js(call.strategy).permits = "function"
                      /\ Js(call.strategy).denies = "function")

\* C8, amended: construction fails exactly when the strategy has no callable
\* denies, or has neither a callable permits nor a callable legacy grants, or
\* has a permits or grants property that is truthy and not callable.
ConstructionValidityWithGrants ==
    pc = "constructed" =>
        (thrown <=>
            \/ Js(call.strategy).denies # "function"
            \/ /\ Js(call.strategy).permits # "function"
               /\ Js(call.strategy).grants # "function"
            \/ Js(call.strategy).permits = "truthy"
            \/ Js(call.strategy).grants = "truthy")

\* an entry built with a strategy that has grants and denies and no permits
GrantsOnlyAccepted ==
    /\ pc = "constructed"
    /\ ~thrown
    /\ ace.strategy = CustomStrategy("undefined", "function", "function")

\* C9: wildcard matching.  A built entry with its principal unset applies to
\* every principal, whatever its other two fields are; likewise, each on its
\* own, an unset action and an unset securable (the entry then applies to a
\* tuple or not whatever the tuple's action, or securable, is); with all
\* three unset it applies to every tuple, permits every tuple when its
\* strategy is PERMIT and denies every tuple when DENY.
WildcardMatching ==
    (pc = "constructed" /\ ~thrown) =>
        /\ ace.principal = Undefined =>
            \A p \in AnyValue :
                /\ appliesToPrincipal(ace, p)
                /\ \A s \in AnyValue, a \in AnyValue :
                    _applies(ace, p, s, a)
                        <=> (appliesToSecurable(ace, s) /\ appliesToAction(ace, a))
        /\ ace.action = Undefined =>
            \A a \in AnyValue :
                /\ appliesToAction(ace, a)
                /\ \A p \in AnyValue, s \in AnyValue :
                    _applies(ace, p, s, a) <=> _applies(ace, p, s, read)
        /\ ace.securable = Undefined =>
            \A s \in AnyValue :
                /\ appliesToSecurable(ace, s)
                /\ \A p \in AnyValue, a \in AnyValue :
                    _applies(ace, p, s, a) <=> _applies(ace, p, doc1, a)
        /\ (ace.principal = Undefined /\ ace.action = Undefined
                /\ ace.securable = Undefined) =>
            \A p \in AnyValue, s \in AnyValue, a \in AnyValue :
                /\ _applies(ace, p, s, a)
                /\ ace.strategy = PERMIT =>
                    Ace_permits(ace, p, a, s) /\ ~Ace_denies(ace, p, a, s)
                /\ ace.strategy = DENY =>
                    Ace_denies(ace, p, a, s) /\ ~Ace_permits(ace, p, a, s)

\* the entry with nothing set and the PERMIT strategy, permitting bob to opA docB
WildcardEntryBuilt ==
    /\ pc = "constructed"
    /\ ace = Ace_of(PERMIT, Undefined, Undefined, Undefined)
    /\ Ace_permits(ace, bob, opA, docB)

----------------------------------------------------------------------------
(* A caller with a strategy of its own: after any calls with the static    *)
(* strategies, one secure or unsecure with any strategy object, the        *)
(* malformed and the absent ones included.                                 *)

StrategyPrincipals == {alice}
StrategySecurables == {doc1}
StrategyActions == {read}

SecureWith(strategy, principal, securable, action) ==
    /\ pc = "idle"
    /\ aces' = Acl_secure(aces, strategy, principal, securable, action)
    /\ thrown' = _secureThrows(aces, strategy, principal, securable, action, TRUE)
    /\ call' = Ace_of(strategy, principal, securable, action)
    /\ pc' = "secureCalled"
    /\ UNCHANGED ace

UnsecureWith(strategy, principal, securable, action) ==
    /\ pc = "idle"
    /\ aces' = Acl_unsecure(aces, strategy, principal, securable, action)
    /\ thrown' = _secureThrows(aces, strategy, principal, securable, action, FALSE)
    /\ call' = Ace_of(strategy, principal, securable, action)
    /\ pc' = "unsecureCalled"
    /\ UNCHANGED ace

NextStrategy ==
    \/ Next
    \/ \E k \in AnyStrategy, p \in StrategyPrincipals, s \in StrategySecurables,
          a \in StrategyActions :
        \/ SecureWith(k, p, s, a)
        \/ UnsecureWith(k, p, s, a)

SpecStrategy == Init /\ [][NextStrategy]_vars

----------------------------------------------------------------------------
(* The README's dynamic strategy: lists built by secure and unsecure with  *)
(* the Strategy object, its legacy twin and the static PERMIT.             *)

DynamicStrategies == {thresholds, legacyThresholds, PERMIT}
DynamicPrincipals == {Undefined, felix, sally}
DynamicSecurables == {Undefined, lowAccount}
DynamicActions == {Undefined, close}

DynamicSecure(strategy, principal, securable, action) ==
    /\ pc = "idle"
    /\ aces' = Acl_secure(aces, strategy, principal, securable, action)
    /\ Len(aces') <= MaxAces
    /\ UNCHANGED <<pc, call, ace, thrown>>

DynamicUnsecure(strategy, principal, securable, action) ==
    /\ pc = "idle"
    /\ aces' = Acl_unsecure(aces, strategy, principal, securable, action)
    /\ UNCHANGED <<pc, call, ace, thrown>>

NextDynamic ==
    \E k \in DynamicStrategies, p \in DynamicPrincipals, s \in DynamicSecurables,
       a \in DynamicActions :
        \/ DynamicSecure(k, p, s, a)
        \/ DynamicUnsecure(k, p, s, a)

SpecDynamic == Init /\ [][NextDynamic]_vars

\* the tuples asked about; every securable is an object or a string, as the
\* Strategy reads securable.balance
AskedPrincipals == {sally, john, felix, bob}
AskedActions == {close, read}
AskedSecurables == Accounts \cup {doc1}

----------------------------------------------------------------------------
(* A script of secure, permit and deny calls made on a new list, compared  *)
(* with the same calls made in another order.                              *)

OrderStrategies == {GRANT, PERMIT, DENY}
OrderPrincipals == {Undefined, alice}
OrderSecurables == {Undefined, doc1}
OrderActions == {Undefined, read}

OrderCalls ==
    {Ace_of(k, p, s, a) : k \in OrderStrategies, p \in OrderPrincipals,
                          s \in OrderSecurables, a \in OrderActions}

\* the script's position: how many of its calls have returned
Made(n) == "made" \o ToString(n)

InitOrder ==
    /\ aces = <<>>
    /\ call \in UNION {[1..n -> OrderCalls] : n \in 0..MaxCalls}
    /\ pc = Made(0)
    /\ ace = NoAce
    /\ thrown = FALSE

\* the script's next call is secure({ strategy: GRANT, ... })
OrderSecure ==
    \E n \in 1..Len(call) :
        /\ pc = Made(n - 1)
        /\ call[n].strategy = GRANT
        /\ aces' = Acl_secure(aces, GRANT, call[n].principal, call[n].securable,
                              call[n].action)
        /\ pc' = Made(n)
        /\ UNCHANGED <<call, ace, thrown>>

\* the script's next call is permit
OrderPermit ==
    \E n \in 1..Len(call) :
        /\ pc = Made(n - 1)
        /\ call[n].strategy = PERMIT
        /\ aces' = Acl_permit(aces, call[n].principal, call[n].securable, call[n].action)
        /\ pc' = Made(n)
        /\ UNCHANGED <<call, ace, thrown>>

\* the script's next call is deny
OrderDeny ==
    \E n \in 1..Len(call) :
        /\ pc = Made(n - 1)
        /\ call[n].strategy = DENY
        /\ aces' = Acl_deny(aces, call[n].principal, call[n].securable, call[n].action)
        /\ pc' = Made(n)
        /\ UNCHANGED <<call, ace, thrown>>

NextOrder ==
    \/ OrderSecure
    \/ OrderPermit
    \/ OrderDeny

SpecOrder == InitOrder /\ [][NextOrder]_vars

\* the list a new Acl holds after the calls, made in the order given
RECURSIVE Build(_)
Build(calls) ==
    IF calls = <<>>
    THEN <<>>
    ELSE LET last == calls[Len(calls)]
         IN  Acl_secure(Build(SubSeq(calls, 1, Len(calls) - 1)), last.strategy,
                        last.principal, last.securable, last.action)

\* the same calls in every order
Reorderings(calls) ==
    {[i \in DOMAIN calls |-> calls[f[i]]] : f \in Permutations(DOMAIN calls)}

OrderQueries ==
    {MultiQuery(Scalar(p), Scalar(a), s) :
        p \in {alice, bob}, a \in {read, write}, s \in {doc1, doc2}}

\* C13: insertion order is not significant.  When the script has made all its
\* calls, every query is answered as on the list that the same calls build in
\* any other order.
OrderInsignificant ==
    pc = Made(Len(call)) =>
        \A other \in Reorderings(call) :
            \A q \in OrderQueries :
                /\ Acl_permits(Build(other), q) = Acl_permits(aces, q)
                /\ Acl_denies(Build(other), q) = Acl_denies(aces, q)

\* C17: secure takes effect.  When the script's permit has returned, permits
\* is true for every tuple that an entry with the call's fields applies to
\* and that no entry of the list denies; when its deny has returned, denies
\* is true for every tuple that an entry with the call's fields applies to.
SecureTakesEffect ==
    \A n \in 1..Len(call) :
        pc = Made(n) =>
            \A p \in {alice, bob}, a \in {read, write}, s \in {doc1, doc2} :
                /\ (/\ call[n].strategy = PERMIT
                    /\ _applies(call[n], p, s, a)
                    /\ \A k \in DOMAIN aces : ~Ace_denies(aces[k], p, a, s))
                   => Acl_permits(aces, MultiQuery(Scalar(p), Scalar(a), s))
                /\ (/\ call[n].strategy = DENY
                    /\ _applies(call[n], p, s, a))
                   => Acl_denies(aces, MultiQuery(Scalar(p), Scalar(a), s))

----------------------------------------------------------------------------
(* Actions of any type: lists built by permit, unpermit, deny and undeny   *)
(* with actions that are strings and actions that are objects.             *)

TypedPrincipals == {alice, bob}
TypedSecurables == {doc1}
TypedActions == {read, write, opA, opB}

TypedPermit(principal, securable, action) ==
    /\ pc = "idle"
    /\ aces' = Acl_permit(aces, principal, securable, action)
    /\ Len(aces') <= MaxAces
    /\ UNCHANGED <<pc, call, ace, thrown>>

TypedUnpermit(principal, securable, action) ==
    /\ pc = "idle"
    /\ aces' = Acl_unpermit(aces, principal, securable, action)
    /\ UNCHANGED <<pc, call, ace, thrown>>

TypedDeny(principal, securable, action) ==
    /\ pc = "idle"
    /\ aces' = Acl_deny(aces, principal, securable, action)
    /\ Len(aces') <= MaxAces
    /\ UNCHANGED <<pc, call, ace, thrown>>

TypedUndeny(principal, securable, action) ==
    /\ pc = "idle"
    /\ aces' = Acl_undeny(aces, principal, securable, action)
    /\ UNCHANGED <<pc, call, ace, thrown>>

NextTyped ==
    \E p \in TypedPrincipals, s \in TypedSecurables, a \in TypedActions :
        \/ TypedPermit(p, s, a)
        \/ TypedUnpermit(p, s, a)
        \/ TypedDeny(p, s, a)
        \/ TypedUndeny(p, s, a)

SpecTyped == Init /\ [][NextTyped]_vars

\* queries for arrays of principals and arrays of actions that are pairwise
\* not the same
TypedQueries ==
    {MultiQuery(Arr(ps), Arr(as), s) :
        ps \in ArraysUpTo(TypedPrincipals, MaxQueryLen),
        as \in {x \in ArraysUpTo(TypedActions, MaxQueryLen) :
                    \A i, j \in DOMAIN x : i # j => ~testSameness(x[i], x[j])},
        s \in TypedSecurables}

\* C14: per-action tracking.  If some requested action is permitted to no
\* requested principal by any entry, permits answers false, whatever the
\* type of the actions.
PerActionTracking ==
    \A q \in TypedQueries :
        (\E j \in DOMAIN q.actions.items :
            \A k \in DOMAIN aces, i \in DOMAIN q.principals.items :
                ~Ace_permits(aces[k], q.principals.items[i], q.actions.items[j],
                             q.securable))
        => ~Acl_permits(aces, q)

====
